---- MODULE Spec2Model ----
(***************************************************************************)
(* Consistent hashing with bounded loads: the Consistent structure of      *)
(* consistent.go (ring, partition table, load table, bin and ball          *)
(* registries) and its operations New, Add, Remove, Locate and Delete.     *)
(*                                                                         *)
(* Strings are kept as TLA+ strings; Bytes gives the byte sequence of      *)
(* each one, which is what the hasher sees.  Go slices are 0-based, TLA+   *)
(* sequences 1-based: every ring index below is the Go index plus one.     *)
(* LoadBalancingParameter is a float64 in the code; the model keeps it in  *)
(* tenths (11 is 1.1).                                                     *)
(***************************************************************************)
EXTENDS Integers, Sequences, FiniteSets, TLC

VARIABLES cfg, phase, c, mu, ret, calls

vars == <<cfg, phase, c, mu, ret, calls>>

(***************************************************************************)
(* Bounds of the model.                                                    *)
(***************************************************************************)
MaxPartition == 3
MaxReplication == 2
MaxRing == 4
MaxNewBins == 2
MaxLoadPartition == 12
MaxLoadBins == 7

(***************************************************************************)
(* Inputs.                                                                 *)
(***************************************************************************)
BinNames == {"0", "a"}
BallNames == {"x", "y"}

\* The bytes of every string the model uses ("0" is 0x30, "a" is 0x61).
Bytes(s) ==
    CASE s = "0" -> <<48>>
      [] s = "a" -> <<97>>
      [] s = "b" -> <<98>>
      [] s = "c" -> <<99>>
      [] s = "d" -> <<100>>
      [] s = "e" -> <<101>>
      [] s = "f" -> <<102>>
      [] s = "g" -> <<103>>
      [] s = "h" -> <<104>>
      [] s = "x" -> <<120>>
      [] s = "y" -> <<121>>

\* LoadBalancingParameter values, in tenths.
LBPValues == {0, 5, 10, 15}

\* Bins, partition counts and parameters of the larger tables (SpecLoad);
\* 23 and 50 are the partition counts of the tests, 1.1 their parameter.
\* 3.5 is a float64 (1.1 and 2.1 are not: the parameter the code holds is
\* the float64 next to them).
LoadBinOrder == <<"0", "a", "b", "c", "d", "e", "f", "g", "h">>

LoadPartitions == (1..MaxLoadPartition) \cup {23, 50, 58}

LoadLBPValues == {10, 11, 21, 35}

\* The hasher is supplied by the caller (Config.Hasher); these are the ones
\* the model passes in.  Sum64 folds the bytes as
\* h := (h * mult + byte) % mod, starting from seed.
Hashers ==
    { [seed |-> 0, mult |-> 3, mod |-> 8],
      [seed |-> 1, mult |-> 5, mod |-> 7] }

\* The hashers of SpecLoad.  The second sends every partition key to 0 (the
\* 8 bytes of a partition id below 256 fold to id * 2^7 % 8), so the bins
\* fill one after the other, each up to the maximum load.
LoadHashers ==
    { [seed |-> 0, mult |-> 3, mod |-> 8],
      [seed |-> 0, mult |-> 2, mod |-> 8] }

Configs ==
    [ Hasher : Hashers,
      Partition : 0..MaxPartition,
      ReplicationFactor : 0..MaxReplication,
      LoadBalancingParameter : LBPValues ]

(***************************************************************************)
(* Errors (errors.go) and the other outcomes of a call.                    *)
(***************************************************************************)
NoErr == "nil"
ErrBallNotFound == "ErrBallNotFound"
ErrBinNotFound == "ErrBinNotFound"
ErrBinAlreadyExist == "ErrBinAlreadyExist"
ErrInsufficientPartitionCapacity == "ErrInsufficientPartitionCapacity"
Panic == "panic"

(***************************************************************************)
(* Go maps as functions with a finite domain.                              *)
(***************************************************************************)
EmptyMap == << >>

MapPut(m, k, v) == [x \in (DOMAIN m) \cup {k} |-> IF x = k THEN v ELSE m[x]]

MapDelete(m, k) == [x \in (DOMAIN m) \ {k} |-> m[x]]

(***************************************************************************)
(* The hasher and the keys it is given.                                    *)
(***************************************************************************)
RECURSIVE Fold(_, _, _)
Fold(hs, h, data) ==
    IF data = << >> THEN h
    ELSE Fold(hs, (h * hs.mult + Head(data)) % hs.mod, Tail(data))

Sum64(hs, data) == Fold(hs, hs.seed % hs.mod, data)

\* fmt.Sprintf("%d", i)
RECURSIVE Itoa(_)
Itoa(i) == IF i < 10 THEN <<48 + i>> ELSE Itoa(i \div 10) \o <<48 + (i % 10)>>

\* add: fmt.Sprintf("%d%s", i, bin.String())
AddLabel(i, bin) == Itoa(i) \o Bytes(bin)

\* Remove: fmt.Sprintf("%s%d", bin.String(), i)
RemoveLabel(i, bin) == Bytes(bin) \o Itoa(i)

\* binary.LittleEndian.PutUint64(bs, partID)
RECURSIVE LittleEndian(_, _)
LittleEndian(v, n) ==
    IF n = 0 THEN << >> ELSE <<v % 256>> \o LittleEndian(v \div 256, n - 1)

PartitionKey(partID) == LittleEndian(partID, 8)

(***************************************************************************)
(* The sorted set of ring positions.                                       *)
(***************************************************************************)
RECURSIVE Insert(_, _)
Insert(ss, h) ==
    IF ss = << >> THEN <<h>>
    ELSE IF h <= Head(ss) THEN <<h>> \o ss
    ELSE <<Head(ss)>> \o Insert(Tail(ss), h)

\* sort.Slice(c.sortedSet, less) on plain integers
RECURSIVE SortSlice(_)
SortSlice(ss) == IF ss = << >> THEN << >> ELSE Insert(SortSlice(Tail(ss)), Head(ss))

\* The search with > in place of >=.
SearchStrict(ss, key) ==
    IF \E i \in 1..Len(ss) : ss[i] > key
    THEN CHOOSE i \in 1..Len(ss) :
            /\ ss[i] > key
            /\ \A j \in 1..(i - 1) : ss[j] <= key
    ELSE Len(ss) + 1

\* sort.Search(len(ss), func(i) { ss[i] >= key }): the first index whose
\* position is >= key, len(ss) (here Len(ss) + 1) when there is none.
Search(ss, key) ==
    IF \E i \in 1..Len(ss) : ss[i] >= key
    THEN CHOOSE i \in 1..Len(ss) :
            /\ ss[i] >= key
            /\ \A j \in 1..(i - 1) : ss[j] < key
    ELSE Len(ss) + 1

\* delSlice: drops the first occurrence of val.
RECURSIVE delSlice(_, _)
delSlice(ss, val) ==
    IF ss = << >> THEN << >>
    ELSE IF Head(ss) = val THEN Tail(ss)
    ELSE <<Head(ss)>> \o delSlice(Tail(ss), val)

(***************************************************************************)
(* float64 arithmetic.  A positive float64 is a record [m, e] standing for *)
(* m * 2^e, with the 53-bit mantissa m kept as four 15-bit limbs, least    *)
(* significant first.  Division and multiplication round to nearest, ties  *)
(* to even, as the hardware does; every intermediate integer stays below   *)
(* 2^31.  Operands are whole numbers below 2^15.                           *)
(***************************************************************************)
Pow2[k \in Nat] == IF k = 0 THEN 1 ELSE 2 * Pow2[k - 1]

Limb == Pow2[15]

Limbs == Seq(Nat)

Float64s == [m : Limbs, e : Int]

Abs(x) == IF x < 0 THEN -x ELSE x

LimbAt(x, i) == IF i <= Len(x) THEN x[i] ELSE 0

DropLimbs(x, k) == IF k >= Len(x) THEN << >> ELSE SubSeq(x, k + 1, Len(x))

IsZero(x) == \A i \in 1..Len(x) : x[i] = 0

\* x * 2^j with 2^14 <= x * 2^j < 2^15
Normalize[x \in Nat, j \in Nat] ==
    IF x >= Pow2[14] THEN [v |-> x, j |-> j] ELSE Normalize[2 * x, j + 1]

\* limbs i..1 of x divided by d <= 2^15, rem carried in from above
DivSmall[x \in Limbs, d \in Nat, i \in Nat, rem \in Nat] ==
    IF i = 0 THEN [q |-> << >>, r |-> rem]
    ELSE LET rest == DivSmall[x, d, i - 1, (rem * Limb + LimbAt(x, i)) % d]
         IN  [q |-> Append(rest.q, (rem * Limb + LimbAt(x, i)) \div d), r |-> rest.r]

AddCarry[x \in Limbs, k \in Nat] ==
    IF x = << >> THEN IF k = 0 THEN << >> ELSE <<k>>
    ELSE <<(Head(x) + k) % Limb>> \o AddCarry[Tail(x), (Head(x) + k) \div Limb]

MulSmall[x \in Limbs, d \in Nat, carry \in Nat] ==
    IF x = << >> THEN <<carry>>
    ELSE <<(Head(x) * d + carry) % Limb>>
         \o MulSmall[Tail(x), d, (Head(x) * d + carry) \div Limb]

AddLimbs[x \in Limbs, y \in Limbs, carry \in Nat] ==
    IF x = << >> /\ y = << >> THEN IF carry = 0 THEN << >> ELSE <<carry>>
    ELSE <<(LimbAt(x, 1) + LimbAt(y, 1) + carry) % Limb>>
         \o AddLimbs[DropLimbs(x, 1), DropLimbs(y, 1),
                     (LimbAt(x, 1) + LimbAt(y, 1) + carry) \div Limb]

MulLimbs[x \in Limbs, y \in Limbs] ==
    IF y = << >> THEN << >>
    ELSE AddLimbs[MulSmall[x, Head(y), 0], <<0>> \o MulLimbs[x, Tail(y)], 0]

\* quotient q and remainder r of num * 2^52 / den rounded to nearest, ties to even
RoundQuo[q \in Limbs, r \in Nat, den \in Nat] ==
    AddCarry[SubSeq(q, 1, 4),
             IF 2 * r > den \/ (2 * r = den /\ q[1] % 2 = 1) THEN 1 ELSE 0]

\* num / den for 2^14 <= den < 2^15 and den <= num < 2 * den
DivNormal[num \in Nat, den \in Nat] ==
    LET d == DivSmall[<<0, 0, 0, (num * Pow2[7]) % Limb, (num * Pow2[7]) \div Limb>>,
                      den, 5, 0]
    IN  RoundQuo[d.q, d.r, den]

Normals == [v : Nat, j : Nat]

QuoNormal[na \in Normals, nb \in Normals] ==
    IF na.v < nb.v
    THEN [m |-> DivNormal[2 * na.v, nb.v], e |-> nb.j - na.j - 53]
    ELSE [m |-> DivNormal[na.v, nb.v], e |-> nb.j - na.j - 52]

\* float64(a) / float64(b), a > 0, b > 0
Float64Quo[a \in Nat, b \in Nat] == QuoNormal[Normalize[a, 0], Normalize[b, 0]]

\* the product p of two mantissas, shifted right by s bits and rounded
RoundProduct[p \in Limbs, s \in Nat] ==
    LET d == DivSmall[DropLimbs(p, 3), Pow2[s - 45], Len(p) - 3, 0]
        half == Pow2[s - 46]
    IN  AddCarry[SubSeq(d.q, 1, 4),
                 IF \/ d.r > half
                    \/ (d.r = half /\ (~IsZero(SubSeq(p, 1, 3)) \/ d.q[1] % 2 = 1))
                 THEN 1 ELSE 0]

MulNormal[p \in Limbs, e \in Int] ==
    IF LimbAt(p, 8) >= 1
    THEN [m |-> RoundProduct[p, 53], e |-> e + 53]
    ELSE [m |-> RoundProduct[p, 52], e |-> e + 52]

\* x * y
Float64Mul[x \in Float64s, y \in Float64s] == MulNormal[MulLimbs[x.m, y.m], x.e + y.e]

\* m shifted right by k bits: the whole part, and whether bits were lost
ShiftRight[m \in Limbs, k \in Nat] ==
    LET d == DivSmall[DropLimbs(m, k \div 15), Pow2[k % 15], Len(DropLimbs(m, k \div 15)), 0]
        low == SubSeq(m, 1, IF k \div 15 < Len(m) THEN k \div 15 ELSE Len(m))
    IN  [whole |-> LimbAt(d.q, 1) + LimbAt(d.q, 2) * Limb,
         frac |-> ~(d.r = 0 /\ IsZero(low))]

\* the whole part of x, and whether x has a fractional part; x < 2^30
Float64Trunc[x \in Float64s] == ShiftRight[x.m, -x.e]

Truncs == [whole : Nat, frac : BOOLEAN]

CeilSigned[x \in Truncs, positive \in BOOLEAN] ==
    IF positive THEN x.whole + (IF x.frac THEN 1 ELSE 0) ELSE -x.whole

\* a / b is a float64 with no rounding: in lowest terms b is a power of two
Exact(a, b) == (a * Pow2[14]) % b = 0

\* math.Ceil(float64(p) / float64(n) * float64(t / 10)), n > 0.  A quotient
\* and a parameter that are both exact have an exact product, and its
\* ceiling is that of the fraction.
CeilLoad(p, n, t) ==
    IF p = 0 \/ t = 0 THEN 0
    ELSE IF Exact(Abs(p), n) /\ Exact(Abs(t), 10) THEN -((-(p * t)) \div (n * 10))
    ELSE CeilSigned[Float64Trunc[Float64Mul[Float64Quo[Abs(p), n], Float64Quo[Abs(t), 10]]],
                    (p < 0) = (t < 0)]

(***************************************************************************)
(* MaximumLoad: ceil(float64(partition) / float64(len(bins)) * parameter). *)
(* The parameter is held in tenths and stands for the float64 nearest to   *)
(* that decimal.  With no bins the division gives +Inf or NaN, which the   *)
(* float keeps.                                                            *)
(***************************************************************************)
Num(v) == [kind |-> "num", val |-> v]
PosInf == [kind |-> "+Inf", val |-> 0]
NegInf == [kind |-> "-Inf", val |-> 0]
NaN == [kind |-> "NaN", val |-> 0]

MaximumLoad(s) ==
    LET n == Cardinality(s.bins)
    IN  IF n > 0
        THEN Num(CeilLoad(s.partition, n, s.loadBalancingParameter))
        ELSE IF s.partition = 0 \/ s.loadBalancingParameter = 0 THEN NaN
        ELSE IF (s.partition > 0) = (s.loadBalancingParameter > 0) THEN PosInf
        ELSE NegInf

\* load+1 <= maxLoad, on float64
LoadFits(load, maxLoad) ==
    CASE maxLoad.kind = "num" -> load + 1 <= maxLoad.val
      [] maxLoad.kind = "+Inf" -> TRUE
      [] OTHER -> FALSE

(***************************************************************************)
(* The Consistent structure, as a record of its fields.  bins maps a name  *)
(* to a Bin whose only data is that name, so it is kept as the set of its  *)
(* keys; partitions and ring hold the name of the bin they point to.       *)
(***************************************************************************)
\* The zero value, before New has run.
Zero ==
    [ hasher |-> [seed |-> 0, mult |-> 0, mod |-> 1],
      partition |-> 0,
      replicationFactor |-> 0,
      loadBalancingParameter |-> 0,
      loads |-> EmptyMap,
      bins |-> {},
      balls |-> EmptyMap,
      partitions |-> EmptyMap,
      ring |-> EmptyMap,
      sortedSet |-> << >> ]

\* One iteration of the loop of add: ring[h] = &bin, append h.
RECURSIVE addReplicas(_, _, _)
addReplicas(s, bin, i) ==
    IF i >= s.replicationFactor THEN s
    ELSE LET h == Sum64(s.hasher, AddLabel(i, bin))
         IN  addReplicas([s EXCEPT !.ring = MapPut(@, h, bin),
                                   !.sortedSet = Append(@, h)],
                         bin, i + 1)

add(s, bin) ==
    LET t == addReplicas(s, bin, 0)
    IN  [t EXCEPT !.sortedSet = SortSlice(@), !.bins = @ \cup {bin}]

\* The loop of Remove: delete(c.ring, h); c.delSlice(h).
RECURSIVE removeReplicas(_, _, _)
removeReplicas(s, bin, i) ==
    IF i >= s.replicationFactor THEN s
    ELSE LET h == Sum64(s.hasher, RemoveLabel(i, bin))
         IN  removeReplicas([s EXCEPT !.ring = MapDelete(@, h),
                                      !.sortedSet = delSlice(@, h)],
                            bin, i + 1)

\* len(loads[bin.String()]): a missing key reads as the nil slice.
LoadOf(loads, bin) == IF bin \in DOMAIN loads THEN Len(loads[bin]) ELSE 0

\* partitions[partID] = &bin; loads[bin] = append(loads[bin], partID)
AssignOverwriting(partitions, loads, partID, bin) ==
    [ partitions |-> MapPut(partitions, partID, bin),
      loads |-> MapPut(loads, bin, <<partID>>) ]

Assign(partitions, loads, partID, bin) ==
    [ partitions |-> MapPut(partitions, partID, bin),
      loads |-> MapPut(loads, bin,
                       IF bin \in DOMAIN loads
                       THEN Append(loads[bin], partID) ELSE <<partID>>) ]

\* The walk with a budget of len(sortedSet) positions instead of len - 1.
RECURSIVE walkWholeRing(_, _, _, _, _, _, _)
walkWholeRing(s, partID, idx, partitions, loads, maxLoad, count) ==
    IF count + 1 > Len(s.sortedSet)
    THEN [err |-> ErrInsufficientPartitionCapacity,
          partitions |-> partitions, loads |-> loads]
    ELSE LET i == s.sortedSet[idx]
         IN  IF i \notin DOMAIN s.ring
             THEN [err |-> Panic, partitions |-> partitions, loads |-> loads]
             ELSE LET bin == s.ring[i]
                  IN  IF LoadFits(LoadOf(loads, bin), maxLoad)
                      THEN [err |-> NoErr] @@ Assign(partitions, loads, partID, bin)
                      ELSE walkWholeRing(s, partID,
                                IF idx + 1 > Len(s.sortedSet) THEN 1 ELSE idx + 1,
                                partitions, loads, maxLoad, count + 1)

\* The walk of distributeWithLoad; count is the value before count++.
RECURSIVE walk(_, _, _, _, _, _, _)
walk(s, partID, idx, partitions, loads, maxLoad, count) ==
    IF count + 1 >= Len(s.sortedSet)
    THEN [err |-> ErrInsufficientPartitionCapacity,
          partitions |-> partitions, loads |-> loads]
    ELSE LET i == s.sortedSet[idx]
         IN  IF i \notin DOMAIN s.ring
             THEN \* *c.ring[i] with no entry for i: nil pointer dereference
                  [err |-> Panic, partitions |-> partitions, loads |-> loads]
             ELSE LET bin == s.ring[i]
                  IN  IF LoadFits(LoadOf(loads, bin), maxLoad)
                      THEN [err |-> NoErr] @@ Assign(partitions, loads, partID, bin)
                      ELSE walk(s, partID,
                                IF idx + 1 > Len(s.sortedSet) THEN 1 ELSE idx + 1,
                                partitions, loads, maxLoad, count + 1)

distributeWithLoad(s, partID, idx, partitions, loads) ==
    walk(s, partID, idx, partitions, loads, MaximumLoad(s), 0)

\* The loop of distributePartitions from partition partID on.
RECURSIVE distributeFrom(_, _, _, _)
distributeFrom(s, partID, partitions, loads) ==
    IF partID >= s.partition
    THEN [err |-> NoErr, partitions |-> partitions, loads |-> loads]
    ELSE LET key == Sum64(s.hasher, PartitionKey(partID))
             found == Search(s.sortedSet, key)
             idx == IF found > Len(s.sortedSet) THEN 1 ELSE found
             r == distributeWithLoad(s, partID, idx, partitions, loads)
         IN  IF r.err # NoErr THEN r
             ELSE distributeFrom(s, partID + 1, r.partitions, r.loads)

\* Returns the structure and the error; the tables are stored only when
\* every partition was placed.
distributePartitions(s) ==
    LET r == distributeFrom(s, 0, EmptyMap, [b \in s.bins |-> << >>])
    IN  IF r.err # NoErr THEN [c |-> s, err |-> r.err]
        ELSE [c |-> [s EXCEPT !.partitions = r.partitions, !.loads = r.loads],
              err |-> NoErr]

FindPartitionIDNoMod(s, key) == Sum64(s.hasher, key)

FindPartitionID(s, key) == Sum64(s.hasher, key) % s.partition

\* A relocation that empties the registry it rebuilt.
relocateDropsBalls(s) == [s EXCEPT !.balls = EmptyMap]

\* relocate builds a local map and drops it: the structure is not touched.
relocate(s) == s

(***************************************************************************)
(* The public operations, as functions from the structure (and the         *)
(* argument) to the structure after the call and what the call returned.   *)
(***************************************************************************)
\* The loop of New over the bins it is given.
RECURSIVE addAll(_, _)
addAll(s, list) ==
    IF list = << >> THEN s ELSE addAll(add(s, Head(list)), Tail(list))

\* New(cfg, bins); isNil tells a nil slice from an empty one.
New(config, isNil, list) ==
    LET s0 == [Zero EXCEPT !.hasher = config.Hasher,
                           !.partition = config.Partition,
                           !.replicationFactor = config.ReplicationFactor,
                           !.loadBalancingParameter = config.LoadBalancingParameter]
        s1 == addAll(s0, list)
    IN  IF isNil THEN [c |-> s1, err |-> NoErr]
        ELSE distributePartitions(s1)

AddNoDupCheck(s, bin) ==
    LET r == distributePartitions(add(s, bin))
    IN  IF r.err # NoErr THEN r ELSE [c |-> relocate(r.c), err |-> NoErr]

Add(s, bin) ==
    IF bin \in s.bins THEN [c |-> s, err |-> ErrBinAlreadyExist]
    ELSE LET r == distributePartitions(add(s, bin))
         IN  IF r.err # NoErr THEN r ELSE [c |-> relocate(r.c), err |-> NoErr]

RemoveNoTrackCheck(s, bin) ==
    LET t == removeReplicas(s, bin, 0)
        u == [t EXCEPT !.bins = @ \ {bin}]
    IN  IF u.bins = {}
        THEN [c |-> [u EXCEPT !.partitions = EmptyMap], err |-> NoErr]
        ELSE distributePartitions(u)

Remove(s, bin) ==
    IF bin \notin s.bins THEN [c |-> s, err |-> NoErr]
    ELSE LET t == removeReplicas(s, bin, 0)
             u == [t EXCEPT !.bins = @ \ {bin}]
         IN  IF u.bins = {}
             THEN [c |-> [u EXCEPT !.partitions = EmptyMap], err |-> NoErr]
             ELSE distributePartitions(u)

DeleteClearsRegistry(s, ball) ==
    LET kept == {p \in DOMAIN s.balls : s.balls[p] # ball}
    IN  IF kept = DOMAIN s.balls THEN [c |-> s, err |-> ErrBallNotFound]
        ELSE [c |-> [s EXCEPT !.balls = EmptyMap], err |-> NoErr]

Delete(s, ball) ==
    LET kept == {p \in DOMAIN s.balls : s.balls[p] # ball}
    IN  IF kept = DOMAIN s.balls THEN [c |-> s, err |-> ErrBallNotFound]
        ELSE [c |-> [s EXCEPT !.balls = [p \in kept |-> s.balls[p]]],
              err |-> NoErr]

\* "nil" stands for the nil *Bin.
GetPartitionOwner(s, partID) ==
    IF partID \in DOMAIN s.partitions THEN s.partitions[partID] ELSE "nil"

\* The balls of the registry.
TrackedBalls(s) == {s.balls[p] : p \in DOMAIN s.balls}

LocateOwnerOnlyIfTracked(s, ball) ==
    IF s.partition = 0 THEN [c |-> s, out |-> "nil", err |-> Panic]
    ELSE LET partID == FindPartitionID(s, Bytes(ball))
             t == [s EXCEPT !.balls = MapPut(@, partID, ball)]
         IN  [c |-> t,
              out |-> IF ball \in TrackedBalls(s)
                      THEN GetPartitionOwner(t, partID) ELSE "nil",
              err |-> NoErr]

\* Locate when no other call runs between its two critical sections.
\* hkey % c.partition panics on a zero partition count, after c.mu.Lock()
\* and with no deferred Unlock.
Locate(s, ball) ==
    IF s.partition = 0 THEN [c |-> s, out |-> "nil", err |-> Panic]
    ELSE LET partID == FindPartitionID(s, Bytes(ball))
             t == [s EXCEPT !.balls = MapPut(@, partID, ball)]
         IN  [c |-> t, out |-> GetPartitionOwner(t, partID), err |-> NoErr]

GetBin(s, name) ==
    IF name \in s.bins THEN [out |-> name, err |-> NoErr]
    ELSE [out |-> "nil", err |-> ErrBinNotFound]

GetBins(s) == s.bins

LoadDistribution(s) == [b \in DOMAIN s.loads |-> Len(s.loads[b])]

\* The balls recorded under the partitions of a list, in the list's order.
RECURSIVE ballsOf(_, _)
ballsOf(s, partitionIDs) ==
    IF partitionIDs = << >> THEN << >>
    ELSE (IF Head(partitionIDs) \in DOMAIN s.balls
          THEN <<s.balls[Head(partitionIDs)]>> ELSE << >>)
         \o ballsOf(s, Tail(partitionIDs))

GetBalls(s, bin) ==
    IF bin \notin DOMAIN s.loads THEN [out |-> << >>, err |-> ErrBinNotFound]
    ELSE [out |-> ballsOf(s, s.loads[bin]), err |-> NoErr]

(***************************************************************************)
(* The state machine: one caller, one call at a time.                      *)
(***************************************************************************)
Ret(op, bin, ball, out, err) ==
    [op |-> op, bin |-> bin, ball |-> ball, out |-> out, err |-> err]

\* The bin lists New may be given (a bin may be listed twice).
BinLists ==
    UNION { [1..n -> BinNames] : n \in 0..MaxNewBins }

\* A call in progress: the writer's (w) between its two halves under the
\* lock, the locator's (l) between the two critical sections of Locate.
NoCall == [op |-> "none", arg |-> "", partID |-> 0]

Idle == [w |-> NoCall, l |-> NoCall]

Init ==
    /\ cfg \in Configs
    /\ phase = "start"
    /\ c = Zero
    /\ mu = "unlocked"
    /\ ret = Ret("none", "", "", "nil", NoErr)
    /\ calls = Idle

CallNew(isNil, list) ==
    /\ phase = "start"
    /\ isNil => list = << >>
    /\ LET r == New(cfg, isNil, list)
       IN  /\ phase' = IF r.err = NoErr THEN "ready" ELSE "failed"
           /\ c' = IF r.err = NoErr THEN r.c ELSE Zero
           /\ ret' = Ret(IF isNil THEN "NewNil" ELSE "New", "", "", "nil", r.err)
    /\ UNCHANGED <<cfg, mu, calls>>

CallAdd(bin) ==
    /\ phase = "ready"
    /\ mu = "unlocked"
    /\ Len(c.sortedSet) + c.replicationFactor <= MaxRing
    /\ LET r == Add(c, bin)
       IN  /\ c' = r.c
           /\ ret' = Ret("Add", bin, "", "nil", r.err)
    /\ UNCHANGED <<cfg, phase, mu, calls>>

CallRemove(bin) ==
    /\ phase = "ready"
    /\ mu = "unlocked"
    /\ LET r == Remove(c, bin)
       IN  /\ c' = r.c
           /\ ret' = Ret("Remove", bin, "", "nil", r.err)
    /\ UNCHANGED <<cfg, phase, mu, calls>>

\* Locate: Lock, FindPartitionID, c.balls[partID] = ball, Unlock.  A panic
\* of FindPartitionID ends the call with the lock held.
LocateRecord(ball) ==
    /\ phase = "ready"
    /\ mu = "unlocked"
    /\ calls.l.op = "none"
    /\ IF c.partition = 0
       THEN /\ mu' = "locked"
            /\ ret' = Ret("Locate", "", ball, "nil", Panic)
            /\ UNCHANGED <<c, calls>>
       ELSE LET partID == FindPartitionID(c, Bytes(ball))
            IN  /\ c' = [c EXCEPT !.balls = MapPut(@, partID, ball)]
                /\ calls' = [calls EXCEPT !.l = [op |-> "Locate", arg |-> ball,
                                                 partID |-> partID]]
                /\ UNCHANGED <<mu, ret>>
    /\ UNCHANGED <<cfg, phase>>

\* Locate: return c.GetPartitionOwner(partID), under RLock.
LocateResolve ==
    /\ calls.l.op = "Locate"
    /\ mu = "unlocked"
    /\ ret' = Ret("Locate", "", calls.l.arg,
                  GetPartitionOwner(c, calls.l.partID), NoErr)
    /\ calls' = [calls EXCEPT !.l = NoCall]
    /\ UNCHANGED <<cfg, phase, c, mu>>

CallDelete(ball) ==
    /\ phase = "ready"
    /\ mu = "unlocked"
    /\ LET r == Delete(c, ball)
       IN  /\ c' = r.c
           /\ ret' = Ret("Delete", "", ball, "nil", r.err)
    /\ UNCHANGED <<cfg, phase, mu, calls>>

Next ==
    \/ \E isNil \in BOOLEAN, list \in BinLists : CallNew(isNil, list)
    \/ \E bin \in BinNames : CallAdd(bin)
    \/ \E bin \in BinNames : CallRemove(bin)
    \/ \E ball \in BallNames : LocateRecord(ball)
    \/ LocateResolve
    \/ \E ball \in BallNames : CallDelete(ball)

Spec == Init /\ [][Next]_vars

(***************************************************************************)
(* Concurrent callers.  c.mu is a sync.RWMutex: a step that takes Lock or  *)
(* RLock waits for mu = "unlocked".  A critical section that nothing can   *)
(* observe from outside is one step; Add and Remove are cut where a        *)
(* reader that takes no lock can see them, after the ring and c.bins are   *)
(* written and before the tables are recomputed.  Locate has two critical  *)
(* sections.  New runs before the structure is shared.                     *)
(***************************************************************************)
\* Add: c.mu.Lock(), the duplicate check and c.add(bin).
BeginAdd(bin) ==
    /\ phase = "ready"
    /\ mu = "unlocked"
    /\ Len(c.sortedSet) + c.replicationFactor <= MaxRing
    /\ IF bin \in c.bins
       THEN /\ ret' = Ret("Add", bin, "", "nil", ErrBinAlreadyExist)
            /\ UNCHANGED <<c, mu, calls>>
       ELSE /\ c' = add(c, bin)
            /\ mu' = "locked"
            /\ calls' = [calls EXCEPT !.w = [NoCall EXCEPT !.op = "Add", !.arg = bin]]
            /\ UNCHANGED ret
    /\ UNCHANGED <<cfg, phase>>

\* Add: distributePartitions(), relocate() and the deferred Unlock.
EndAdd ==
    /\ calls.w.op = "Add"
    /\ LET r == distributePartitions(c)
       IN  /\ c' = IF r.err # NoErr THEN r.c ELSE relocate(r.c)
           /\ ret' = Ret("Add", calls.w.arg, "", "nil", r.err)
    /\ mu' = "unlocked"
    /\ calls' = [calls EXCEPT !.w = NoCall]
    /\ UNCHANGED <<cfg, phase>>

\* Remove: c.mu.Lock(), the tracked check, the ring and c.bins deletions.
BeginRemove(bin) ==
    /\ phase = "ready"
    /\ mu = "unlocked"
    /\ IF bin \notin c.bins
       THEN /\ ret' = Ret("Remove", bin, "", "nil", NoErr)
            /\ UNCHANGED <<c, mu, calls>>
       ELSE /\ c' = [removeReplicas(c, bin, 0) EXCEPT !.bins = @ \ {bin}]
            /\ mu' = "locked"
            /\ calls' = [calls EXCEPT !.w = [NoCall EXCEPT !.op = "Remove", !.arg = bin]]
            /\ UNCHANGED ret
    /\ UNCHANGED <<cfg, phase>>

\* Remove: the reset or the redistribution, and the deferred Unlock.
EndRemove ==
    /\ calls.w.op = "Remove"
    /\ LET r == IF c.bins = {}
                THEN [c |-> [c EXCEPT !.partitions = EmptyMap], err |-> NoErr]
                ELSE distributePartitions(c)
       IN  /\ c' = r.c
           /\ ret' = Ret("Remove", calls.w.arg, "", "nil", r.err)
    /\ mu' = "unlocked"
    /\ calls' = [calls EXCEPT !.w = NoCall]
    /\ UNCHANGED <<cfg, phase>>

\* The queries that take RLock, and what each returns.
LockedQueries ==
    {"GetBins", "GetBin", "GetPartitionOwner", "LoadDistribution", "GetBalls"}

\* A bin pointer is returned as the bin's name ("nil" for nil), a
\* collection or a number as its text, so that every returned value is a
\* string.
Query(s, op, bin, partID) ==
    CASE op = "GetBins" -> [out |-> ToString(GetBins(s)), err |-> NoErr]
      [] op = "GetBin" -> GetBin(s, bin)
      [] op = "GetPartitionOwner" ->
            [out |-> GetPartitionOwner(s, partID), err |-> NoErr]
      [] op = "LoadDistribution" ->
            [out |-> ToString(LoadDistribution(s)), err |-> NoErr]
      [] op = "GetBalls" ->
            [out |-> ToString(GetBalls(s, bin).out), err |-> GetBalls(s, bin).err]

CallQuery(op, bin, partID) ==
    /\ phase = "ready"
    /\ mu = "unlocked"
    /\ op \in {"GetBin", "GetBalls"} \/ bin = ""
    /\ IF op = "GetPartitionOwner" THEN partID < c.partition ELSE partID = 0
    /\ LET r == Query(c, op, bin, partID)
       IN  ret' = Ret(op, bin, "", r.out, r.err)
    /\ UNCHANGED <<cfg, phase, c, mu, calls>>

\* MaximumLoad() reads len(c.bins) with no lock: it runs in any state of the
\* shared structure, also between the two halves of an Add or a Remove.
CallMaximumLoad ==
    /\ phase = "ready"
    /\ ret' = Ret("MaximumLoad", "", "", ToString(MaximumLoad(c)), NoErr)
    /\ UNCHANGED <<cfg, phase, c, mu, calls>>

NextConc ==
    \/ \E isNil \in BOOLEAN, list \in BinLists : CallNew(isNil, list)
    \/ \E bin \in BinNames : BeginAdd(bin)
    \/ EndAdd
    \/ \E bin \in BinNames : BeginRemove(bin)
    \/ EndRemove
    \/ \E ball \in BallNames : LocateRecord(ball)
    \/ LocateResolve
    \/ \E ball \in BallNames : CallDelete(ball)
    \/ \E op \in LockedQueries, bin \in BinNames \cup {""}, partID \in 0..MaxPartition :
          CallQuery(op, bin, partID)
    \/ CallMaximumLoad

\* The structure is shared under the configurations of one hasher with the
\* largest replication factor and a load-balancing parameter of 1.
ConcConfigs ==
    {k \in Configs : /\ k.Hasher = [seed |-> 0, mult |-> 3, mod |-> 8]
                     /\ k.ReplicationFactor = MaxReplication
                     /\ k.LoadBalancingParameter = 10}

InitConc == Init /\ cfg \in ConcConfigs

SpecConc == InitConc /\ [][NextConc]_vars

\* Fair scheduling: a call that holds the write lock runs on to its
\* deferred Unlock, and a Locate waiting for RLock gets it, since an
\* RWMutex lets the waiting readers in when a writer unlocks.
SpecFair ==
    /\ SpecConc
    /\ WF_vars(EndAdd)
    /\ WF_vars(EndRemove)
    /\ SF_vars(LocateResolve)

(***************************************************************************)
(* Larger tables.  New and MaximumLoad under configurations whose          *)
(* partition counts and load-balancing parameters go beyond those of       *)
(* Configs: there float64(partition) / float64(len(bins)) * parameter      *)
(* rounds to a value just above a whole number.                            *)
(***************************************************************************)
LoadConfigs ==
    [ Hasher : LoadHashers,
      Partition : LoadPartitions,
      ReplicationFactor : {1},
      LoadBalancingParameter : LoadLBPValues ]

LoadBinLists ==
    UNION { { SubSeq(LoadBinOrder, i, i + n - 1) :
                  i \in 1..(Len(LoadBinOrder) - n + 1) } :
            n \in 1..MaxLoadBins }

InitLoad ==
    /\ cfg \in LoadConfigs
    /\ phase = "start"
    /\ c = Zero
    /\ mu = "unlocked"
    /\ ret = Ret("none", "", "", "nil", NoErr)
    /\ calls = Idle

NextLoad ==
    \/ \E list \in LoadBinLists : CallNew(FALSE, list)
    \/ CallMaximumLoad

SpecLoad == InitLoad /\ [][NextLoad]_vars

TypeOK ==
    /\ phase \in {"start", "ready", "failed"}
    /\ mu \in {"unlocked", "locked"}
    /\ c.bins \subseteq BinNames
    /\ Len(c.sortedSet) <= MaxRing + MaxNewBins * MaxReplication

(***************************************************************************)
(* Steps and states the properties speak about.                            *)
(***************************************************************************)
\* The configuration satisfies what section 6 of the specification asks.
ValidConfig ==
    /\ cfg.Partition > 0
    /\ cfg.ReplicationFactor > 0
    /\ cfg.LoadBalancingParameter > 0

\* A valid configuration whose load-balancing parameter is at least 1, as
\* section 4.2 asks for the bound to be satisfiable.
FeasibleConfig == ValidConfig /\ cfg.LoadBalancingParameter >= 10

\* The first critical section of Locate: it changes c and returns nothing.
LocateRecorded == calls.l.op = "none" /\ calls'.l.op = "Locate"

\* The step is the return of a call of op.
Returns(op) == ret'.op = op /\ ~LocateRecorded

\* The step is a call that ran distributePartitions to its end.
NewDistributed == phase = "start" /\ phase' = "ready" /\ Returns("New")
AddDistributed == phase = "ready" /\ Returns("Add") /\ ret'.err = NoErr
RemoveDistributed ==
    /\ phase = "ready" /\ Returns("Remove") /\ ret'.err = NoErr
    /\ ret'.bin \in c.bins /\ c'.bins # {}
DistributionSucceeded == NewDistributed \/ AddDistributed \/ RemoveDistributed

\* the ceiling of num / den over the rationals
Ceil(num, den) == -((-num) \div den)

\* ceil((partitionCount / tracked bins) * loadBalancingParameter)
Bound == Ceil(c.partition * c.loadBalancingParameter, Cardinality(c.bins) * 10)

LoadBound == \A b \in DOMAIN c.loads : Len(c.loads[b]) <= Bound

\* The places of the load table where partition p is listed.
Listed(p) ==
    {<<b, i>> \in (DOMAIN c.loads) \X (1..MaxPartition + 1) :
        i <= Len(c.loads[b]) /\ c.loads[b][i] = p}

TotalCoverage ==
    /\ \A b \in DOMAIN c.loads : \A i \in 1..Len(c.loads[b]) :
          c.loads[b][i] \in 0..(c.partition - 1)
    /\ \A p \in 0..(c.partition - 1) : Cardinality(Listed(p)) = 1

(***************************************************************************)
(* C1 (load bound): every call that ran a successful distribution (New     *)
(* with bins, Add returning nil, Remove of a tracked bin returning nil     *)
(* with a bin left) leaves every bin of the load table with at most        *)
(* ceil((partitionCount / tracked bins) * loadBalancingParameter)          *)
(* partitions.  It holds under Spec and fails under SpecLoad: New with 58  *)
(* partitions, parameter 3.5 and seven bins computes 58.0 / 7.0 * 3.5 =    *)
(* 29.000000000000004, lets a bin take 30 partitions, and the ceiling of   *)
(* 58 / 7 * 3.5 is 29; with 10 partitions, 2.1 and three bins a bin takes  *)
(* 8 and the ceiling of 10 / 3 * 2.1 is 7.                                 *)
(***************************************************************************)
C1_LoadBound == [][DistributionSucceeded => LoadBound']_vars

(***************************************************************************)
(* C2 (total coverage): after every successful distribution the per-bin    *)
(* partition lists of the load table are pairwise disjoint, list no        *)
(* partition twice, and together list exactly 0 .. partitionCount-1.       *)
(***************************************************************************)
C2_TotalCoverage == [][DistributionSucceeded => TotalCoverage']_vars

\* A distribution has spread three partitions or more over several bins.
C2_Witness ==
    /\ phase = "ready" /\ ret.op \in {"New", "Add", "Remove"} /\ ret.err = NoErr
    /\ c.partition >= 3
    /\ TotalCoverage
    /\ Cardinality({b \in DOMAIN c.loads : c.loads[b] # << >>}) >= 2

(***************************************************************************)
(* C3: in every state of a constructed structure, if a bin is tracked      *)
(* every PartitionID of [0, partitionCount) has an owner in the partition  *)
(* table, and if no bin is tracked the partition table is empty.  Stated   *)
(* for structures built from a feasible configuration.                     *)
(***************************************************************************)
C3_PartitionTableTotal ==
    (phase = "ready" /\ FeasibleConfig) =>
        /\ c.bins # {} => DOMAIN c.partitions = 0..(c.partition - 1)
        /\ c.bins = {} => DOMAIN c.partitions = {}

(***************************************************************************)
(* C4: after Remove of a tracked bin returns nil with other bins left,     *)
(* every owner in the partition table and every key of the load table      *)
(* that holds partitions is a tracked bin, and the tracked bins own all    *)
(* the partitions.  Stated for a feasible configuration.                   *)
(***************************************************************************)
OwnersTracked ==
    /\ \A p \in DOMAIN c.partitions : c.partitions[p] \in c.bins
    /\ \A b \in DOMAIN c.loads : c.loads[b] # << >> => b \in c.bins
    /\ \A p \in 0..(c.partition - 1) :
          p \in DOMAIN c.partitions /\ c.partitions[p] \in c.bins

C4_RemovedBinOwnsNothing ==
    [][(RemoveDistributed /\ FeasibleConfig) => OwnersTracked']_vars

(***************************************************************************)
(* C5: when Add fails with ErrInsufficientPartitionCapacity the structure  *)
(* is exactly as before the call (bin registry, ring, partition and load   *)
(* tables).  Stated for a feasible configuration.                          *)
(***************************************************************************)
C5_FailedAddLeavesState ==
    [][(/\ phase = "ready" /\ FeasibleConfig
        /\ Returns("Add")
        /\ ret'.err = ErrInsufficientPartitionCapacity) => c' = c]_vars

(***************************************************************************)
(* C6: when Remove returns an error the structure is exactly as before     *)
(* the call: the bin is still tracked, its ring positions are present and  *)
(* the tables are unchanged.  Stated for a feasible configuration.         *)
(***************************************************************************)
C6_FailedRemoveLeavesState ==
    [][(/\ phase = "ready" /\ FeasibleConfig
        /\ Returns("Remove")
        /\ ret'.err = ErrInsufficientPartitionCapacity) => c' = c]_vars

(***************************************************************************)
(* C7: Add of a bin whose name is already tracked returns                  *)
(* ErrBinAlreadyExist and changes nothing in the structure (ring, bin      *)
(* registry, partition table, load table, ball registry).                  *)
(***************************************************************************)
C7_AddExistingRejected ==
    [][(phase = "ready" /\ Returns("Add") /\ ret'.bin \in c.bins)
          => (ret'.err = ErrBinAlreadyExist /\ c' = c)]_vars

\* A second Add of a tracked bin was rejected while its replicas are on the ring.
C7_Witness ==
    /\ phase = "ready" /\ ret.op = "Add" /\ ret.err = ErrBinAlreadyExist
    /\ ret.bin \in c.bins
    /\ \E h \in DOMAIN c.ring : c.ring[h] = ret.bin

(***************************************************************************)
(* C8: Remove of a bin that is not tracked returns nil and changes         *)
(* nothing in the structure.                                               *)
(***************************************************************************)
C8_RemoveUntrackedNoop ==
    [][(phase = "ready" /\ Returns("Remove") /\ ret'.bin \notin c.bins)
          => (ret'.err = NoErr /\ c' = c)]_vars

\* Remove returned nil for an untracked bin although one of the labels it
\* would delete is a position of the ring (a removal would have deleted it).
C8_Witness ==
    /\ phase = "ready" /\ ret.op = "Remove" /\ ret.err = NoErr
    /\ ret.bin \notin c.bins /\ c.bins # {}
    /\ \E i \in 0..(c.replicationFactor - 1) :
          Sum64(c.hasher, RemoveLabel(i, ret.bin)) \in DOMAIN c.ring

(***************************************************************************)
(* C9: removing the last tracked bin returns no error and leaves the       *)
(* partition table and the load table empty (GetPartitionOwner is nil for  *)
(* every partition, LoadDistribution is the empty map).  Stated for a      *)
(* feasible configuration.                                                 *)
(***************************************************************************)
C9_LastRemoveEmptiesTables ==
    [][(/\ phase = "ready" /\ FeasibleConfig
        /\ Returns("Remove") /\ ret'.bin \in c.bins /\ c'.bins = {})
          => (/\ ret'.err = NoErr
              /\ \A p \in 0..(c.partition - 1) : GetPartitionOwner(c', p) = "nil"
              /\ DOMAIN LoadDistribution(c') = {})]_vars

(***************************************************************************)
(* C10: New returns an error when Partition, ReplicationFactor or          *)
(* LoadBalancingParameter is not positive, also when no bins are passed,   *)
(* and succeeds (with no bins) when all three are positive.                *)
(***************************************************************************)
C10_NewValidatesConfig ==
    /\ phase = "ready" => ValidConfig
    /\ (ret.op = "NewNil" /\ ValidConfig) => phase = "ready"

(***************************************************************************)
(* C11: a ball stays tracked from its Locate until its own Delete: no      *)
(* step other than Delete of that ball (in particular no Locate of another *)
(* ball and no Add or Remove) takes a tracked ball out of the registry.    *)
(* Stated for a feasible configuration.                                    *)
(***************************************************************************)
C11_BallStaysTracked ==
    [][(phase = "ready" /\ FeasibleConfig) =>
          \A b \in TrackedBalls(c) :
             (Returns("Delete") /\ ret'.ball = b) \/ b \in TrackedBalls(c')]_vars

(***************************************************************************)
(* C12: Delete of a ball that is not in the registry returns               *)
(* ErrBallNotFound and changes nothing; Delete of a tracked ball returns   *)
(* nil, removes that ball only, and leaves every other ball under its      *)
(* partition and the bins, ring, partition and load tables unchanged.      *)
(***************************************************************************)
C12_DeleteExact ==
    [][(phase = "ready" /\ Returns("Delete")) =>
          IF ret'.ball \notin TrackedBalls(c)
          THEN ret'.err = ErrBallNotFound /\ c' = c
          ELSE /\ ret'.err = NoErr
               /\ TrackedBalls(c') = TrackedBalls(c) \ {ret'.ball}
               /\ \A p \in DOMAIN c.balls :
                     c.balls[p] # ret'.ball =>
                        (p \in DOMAIN c'.balls /\ c'.balls[p] = c.balls[p])
               /\ [c' EXCEPT !.balls = c.balls] = c]_vars

\* A ball was deleted while another ball and a distributed bin stay.
C12_Witness ==
    /\ phase = "ready" /\ ret.op = "Delete" /\ ret.err = NoErr
    /\ calls.l.op = "none"
    /\ ret.ball \notin TrackedBalls(c)
    /\ TrackedBalls(c) # {}
    /\ DOMAIN c.partitions # {}

(***************************************************************************)
(* C13 (idempotent locate): a Locate that returns next after a Locate of   *)
(* the same ball returns the same bin; once Locate has recorded a ball, a  *)
(* second Locate of it with nothing between returns the bin of the first   *)
(* and leaves the registry as the first left it; and no step of Locate or  *)
(* Delete changes the bin that Locate returns for any ball.                *)
(***************************************************************************)
C13_LocateIdempotent ==
    [][/\ (/\ phase = "ready"
           /\ ret.op = "Locate" /\ ret.err = NoErr
           /\ Returns("Locate") /\ ret'.ball = ret.ball)
          => (ret'.err = NoErr /\ ret'.out = ret.out)
       /\ (phase = "ready" /\ LocateRecorded)
          => LET first == Locate(c, calls'.l.arg)
             IN  /\ first.c = c'
                 /\ Locate(c', calls'.l.arg)
                       = [c |-> c', out |-> first.out, err |-> NoErr]
       /\ (/\ phase = "ready" /\ c.partition > 0
           /\ (LocateRecorded \/ Returns("Locate") \/ Returns("Delete")))
          => \A b \in BallNames : Locate(c', b).out = Locate(c, b).out]_vars

\* Locate returned a bin and the same call, repeated, changes nothing.
C13_Witness ==
    /\ phase = "ready" /\ ret.op = "Locate" /\ ret.err = NoErr
    /\ calls.l.op = "none"
    /\ ret.out # "nil"
    /\ Locate(c, ret.ball) = [c |-> c, out |-> ret.out, err |-> NoErr]

(***************************************************************************)
(* C14: Locate computes the partition Hasher(ball) mod partitionCount, a   *)
(* PartitionID of [0, partitionCount), records the ball under it in its    *)
(* first critical section and changes nothing else; in its second it       *)
(* returns the bin the partition table has for that partition (nil when    *)
(* it has none) and changes nothing.                                       *)
(***************************************************************************)
C14_LocateResult ==
    [][/\ (phase = "ready" /\ LocateRecorded) =>
             LET p == Sum64(c.hasher, Bytes(calls'.l.arg)) % c.partition
             IN  /\ p \in 0..(c.partition - 1)
                 /\ calls'.l.partID = p
                 /\ p \in DOMAIN c'.balls /\ c'.balls[p] = calls'.l.arg
                 /\ \A q \in (DOMAIN c'.balls) \ {p} :
                       q \in DOMAIN c.balls /\ c'.balls[q] = c.balls[q]
                 /\ [c' EXCEPT !.balls = c.balls] = c
       /\ (phase = "ready" /\ Returns("Locate") /\ ret'.err = NoErr) =>
             LET p == Sum64(c.hasher, Bytes(ret'.ball)) % c.partition
             IN  /\ ret'.ball = calls.l.arg
                 /\ ret'.out = IF p \in DOMAIN c.partitions
                               THEN c.partitions[p] ELSE "nil"
                 /\ c' = c]_vars

\* Locate returned an owner for a ball whose hash is beyond the partition count.
C14_Witness ==
    /\ phase = "ready" /\ ret.op = "Locate" /\ ret.err = NoErr
    /\ calls.l.op = "none"
    /\ ret.out # "nil"
    /\ Sum64(c.hasher, Bytes(ret.ball)) >= c.partition
    /\ ret.ball \in TrackedBalls(c)

(***************************************************************************)
(* C15 (determinism): after a successful distribution the partition table  *)
(* is the one of any other instance with the same configuration that       *)
(* tracks the same bins, here the instances New builds from a list of      *)
(* those bins in any order.  Stated for a feasible configuration and for    *)
(* instances in which no two ring positions have the same hash.            *)
(***************************************************************************)
ListedBins(list) == {list[i] : i \in 1..Len(list)}

\* No two ring positions of the structure coincide.
NoCollision(s) ==
    \A i, j \in 1..Len(s.sortedSet) : s.sortedSet[i] = s.sortedSet[j] => i = j

C15_Determinism ==
    [][(DistributionSucceeded /\ FeasibleConfig /\ NoCollision(c')) =>
          \A list \in BinLists :
             LET other == New(cfg, FALSE, list)
             IN  (/\ ListedBins(list) = c'.bins
                  /\ other.err = NoErr
                  /\ NoCollision(other.c))
                    => other.c.partitions = c'.partitions]_vars

(***************************************************************************)
(* C16: GetBalls(bin) returns ErrBinNotFound exactly when the bin is not   *)
(* tracked (when GetBin on its name fails too), in every state.  Stated    *)
(* for a feasible configuration.                                           *)
(***************************************************************************)
C16_GetBallsNotFound ==
    (phase = "ready" /\ FeasibleConfig) =>
        \A b \in BinNames :
           /\ (GetBalls(c, b).err = ErrBinNotFound) <=> (b \notin GetBins(c))
           /\ (GetBalls(c, b).err = ErrBinNotFound)
                 <=> (GetBin(c, b).err = ErrBinNotFound)

(***************************************************************************)
(* C17: GetBins is the set of bins added successfully and not removed:     *)
(* New leaves the bins it was given, Add(b) returning nil adds b,          *)
(* Remove(b) returning nil takes b out, and no other call changes the      *)
(* set; GetBin agrees with GetBins.  Stated for a feasible configuration.  *)
(***************************************************************************)
C17_BinRegistry ==
    [][(phase = "ready" /\ FeasibleConfig) =>
          /\ GetBins(c') =
                IF Returns("Add") /\ ret'.err = NoErr
                THEN GetBins(c) \cup {ret'.bin}
                ELSE IF Returns("Remove") /\ ret'.err = NoErr
                THEN GetBins(c) \ {ret'.bin}
                ELSE GetBins(c)
          /\ \A b \in BinNames :
                (GetBin(c', b).err = NoErr) <=> (b \in GetBins(c'))]_vars

(***************************************************************************)
(* C18: with a bin tracked, MaximumLoad() is the least whole number not    *)
(* below (partitionCount / tracked bins) * loadBalancingParameter, for     *)
(* the bins tracked now; e.g. 7 for 23 partitions, 4 bins and 1.1, 9 with  *)
(* 3 bins, 2 for 4 partitions and 2 bins and 1 for 2 partitions and 4      *)
(* bins with parameter 1.  It holds under Spec and fails under SpecLoad,   *)
(* where the float64 product lies just above a whole number: 30 for 58     *)
(* partitions, 7 bins and 3.5 (the ceiling of 29 is 29), 8 for 10          *)
(* partitions, 3 bins and 2.1 (the ceiling of 7 is 7), 56 for 50           *)
(* partitions, 1 bin and 1.1 (the ceiling of 55 is 55).                    *)
(***************************************************************************)
\* A structure with the given counts, for the examples.
Example(p, n, lbp) ==
    [Zero EXCEPT !.partition = p, !.bins = 1..n, !.loadBalancingParameter = lbp]

C18_MaximumLoad ==
    /\ (phase = "ready" /\ c.bins # {}) =>
          LET m == MaximumLoad(c)
              n == Cardinality(GetBins(c))
          IN  /\ m.kind = "num"
              /\ m.val * n * 10 >= c.partition * c.loadBalancingParameter
              /\ (m.val - 1) * n * 10 < c.partition * c.loadBalancingParameter
    /\ MaximumLoad(Example(23, 4, 11)).val = 7
    /\ MaximumLoad(Example(23, 3, 11)).val = 9
    /\ MaximumLoad(Example(4, 2, 10)).val = 2
    /\ MaximumLoad(Example(2, 4, 10)).val = 1

(***************************************************************************)
(* C19: New with one initial bin, ReplicationFactor 1 and                  *)
(* LoadBalancingParameter 1 returns ErrInsufficientPartitionCapacity for   *)
(* every positive partition count of the model and for 4 partitions, and   *)
(* no structure built by New has these parameters and a single ring        *)
(* position.                                                               *)
(***************************************************************************)
C19_SparseRingFails ==
    /\ \A b \in BinNames :
          New([cfg EXCEPT !.Partition = 4, !.ReplicationFactor = 1,
                          !.LoadBalancingParameter = 10], FALSE, <<b>>).err
             = ErrInsufficientPartitionCapacity
    /\ (/\ cfg.Partition > 0 /\ cfg.ReplicationFactor = 1
        /\ cfg.LoadBalancingParameter = 10) =>
          /\ \A b \in BinNames :
                New(cfg, FALSE, <<b>>).err = ErrInsufficientPartitionCapacity
          /\ (phase = "ready" /\ ret.op = "New") => Len(c.sortedSet) # 1

\* New failed with the capacity error under these parameters.
C19_Witness ==
    /\ phase = "failed" /\ ret.op = "New"
    /\ ret.err = ErrInsufficientPartitionCapacity
    /\ cfg.Partition = MaxPartition /\ cfg.ReplicationFactor = 1
    /\ cfg.LoadBalancingParameter = 10
    /\ \A b \in BinNames :
          New(cfg, FALSE, <<b>>).err = ErrInsufficientPartitionCapacity

(***************************************************************************)
(* C20: with concurrent callers, no query (GetBins, GetBin,                *)
(* GetPartitionOwner, LoadDistribution, GetBalls, MaximumLoad) returns     *)
(* while an Add or a Remove is between its two halves, where the bin       *)
(* count has changed and the tables are not recomputed.  Stated for a      *)
(* feasible configuration.                                                 *)
(***************************************************************************)
C20_QueriesSeeNoIntermediateState ==
    [][(/\ FeasibleConfig
        /\ ret'.op \in LockedQueries \cup {"MaximumLoad"}
        /\ ret' # ret)
          => calls.w.op = "none"]_vars

(***************************************************************************)
(* C21: Locate is atomic with respect to concurrent Add and Remove: from   *)
(* the step that records the ball to the step that returns, the owner of   *)
(* the ball's partition does not change, so the bin returned is the owner  *)
(* in the state in which the ball was recorded.  Stated for a feasible     *)
(* configuration.                                                          *)
(***************************************************************************)
C21_LocateAtomic ==
    [][(FeasibleConfig /\ calls.l.op = "Locate" /\ calls'.l = calls.l) =>
          GetPartitionOwner(c', calls.l.partID)
             = GetPartitionOwner(c, calls.l.partID)]_vars

(***************************************************************************)
(* C22: Remove of a tracked bin deletes from the ring exactly the          *)
(* positions that add inserted for that bin and no position of another     *)
(* bin; afterwards no ring position points to the removed bin.  Stated     *)
(* for a feasible configuration and a ring without colliding positions.    *)
(***************************************************************************)
\* The positions add computes for a bin.
AddPositions(s, bin) ==
    {Sum64(s.hasher, AddLabel(i, bin)) : i \in 0..(s.replicationFactor - 1)}

C22_RemoveDeletesOwnPositions ==
    [][(/\ phase = "ready" /\ FeasibleConfig /\ NoCollision(c)
        /\ Returns("Remove") /\ ret'.bin \in c.bins) =>
          /\ DOMAIN c'.ring = (DOMAIN c.ring) \ AddPositions(c, ret'.bin)
          /\ \A h \in DOMAIN c'.ring :
                c'.ring[h] = c.ring[h] /\ c'.ring[h] # ret'.bin
          /\ Len(c'.sortedSet) = Cardinality(DOMAIN c'.ring)]_vars

(***************************************************************************)
(* C23: a distribution returns ErrInsufficientPartitionCapacity only when  *)
(* no position of the ring has a bin whose accumulated load is below       *)
(* MaximumLoad: whenever the bin of some ring position has room, the       *)
(* partition is assigned.  Stated for the distributions run by Add and     *)
(* Remove under a feasible configuration.                                  *)
(***************************************************************************)
\* The loads accumulated when the distribution over s stopped.
LoadsAtStop(s) == distributeFrom(s, 0, EmptyMap, [b \in s.bins |-> << >>]).loads

\* No position of the ring of s has a bin with room under these loads.
NoRoom(s, loads) ==
    \A i \in 1..Len(s.sortedSet) :
       s.sortedSet[i] \in DOMAIN s.ring =>
          ~(LoadOf(loads, s.ring[s.sortedSet[i]]) < MaximumLoad(s).val)

C23_FailsOnlyWhenRingFull ==
    [][(/\ phase = "ready" /\ FeasibleConfig
        /\ ret'.op \in {"Add", "Remove"} /\ ~LocateRecorded
        /\ ret'.err = ErrInsufficientPartitionCapacity) =>
          NoRoom(c', LoadsAtStop(c'))]_vars

(***************************************************************************)
(* C24: in every distribution that succeeds, the partitions are placed in  *)
(* increasing id order, each on the bin of the first ring position, in     *)
(* ascending ring order from the first position >= the partition's hash    *)
(* (wrapping to the first position), whose bin has fewer partitions than   *)
(* MaximumLoad so far; the bin's list in the load table grows by that      *)
(* partition.                                                              *)
(***************************************************************************)
\* The ring index where the walk of partition p starts.
Anchor(s, p) ==
    LET key == Sum64(s.hasher, PartitionKey(p))
        ge == {i \in 1..Len(s.sortedSet) : s.sortedSet[i] >= key}
    IN  IF ge = {} THEN 1 ELSE CHOOSE i \in ge : \A j \in ge : i <= j

\* The ring index k positions after index start, wrapping.
RingIndex(s, start, k) == ((start - 1 + k) % Len(s.sortedSet)) + 1

\* The partitions below p that the table gives to a bin.
LoadBefore(partitions, bin, p) ==
    Cardinality({q \in DOMAIN partitions : q < p /\ partitions[q] = bin})

\* The bin k positions after the anchor of p has room (or is full) when p
\* is placed.
RoomAt(s, p, k) ==
    LET h == s.sortedSet[RingIndex(s, Anchor(s, p), k)]
    IN  /\ h \in DOMAIN s.ring
        /\ LoadBefore(s.partitions, s.ring[h], p) < MaximumLoad(s).val

FullAt(s, p, k) ==
    LET h == s.sortedSet[RingIndex(s, Anchor(s, p), k)]
    IN  /\ h \in DOMAIN s.ring
        /\ LoadBefore(s.partitions, s.ring[h], p) >= MaximumLoad(s).val

\* Partition p is on the first bin after its anchor that had room.
FirstFit(s, p) ==
    \E k \in 0..(Len(s.sortedSet) - 1) :
       /\ RoomAt(s, p, k)
       /\ s.ring[s.sortedSet[RingIndex(s, Anchor(s, p), k)]] = s.partitions[p]
       /\ \A j \in 0..(k - 1) : FullAt(s, p, j)

\* Each list of the load table is the bin's partitions in increasing order.
LoadsInOrder(s) ==
    \A b \in DOMAIN s.loads :
       /\ \A i \in 1..Len(s.loads[b]) :
             /\ s.loads[b][i] \in DOMAIN s.partitions
             /\ s.partitions[s.loads[b][i]] = b
             /\ \A j \in 1..(i - 1) : s.loads[b][j] < s.loads[b][i]
       /\ Len(s.loads[b]) = Cardinality({p \in DOMAIN s.partitions : s.partitions[p] = b})

C24_FirstFitInRingOrder ==
    [][DistributionSucceeded =>
          /\ DOMAIN c'.partitions = 0..(c'.partition - 1)
          /\ \A p \in DOMAIN c'.partitions : FirstFit(c', p)
          /\ LoadsInOrder(c')]_vars

\* A distribution placed a partition past a full bin and another one after
\* wrapping from the end of the ring.
C24_Witness ==
    /\ phase = "ready" /\ ret.op \in {"New", "Add", "Remove"} /\ ret.err = NoErr
    /\ DOMAIN c.partitions = 0..(c.partition - 1)
    /\ \A p \in DOMAIN c.partitions : FirstFit(c, p)
    /\ \E p \in DOMAIN c.partitions : FullAt(c, p, 0)
    /\ \E p \in DOMAIN c.partitions :
          \A i \in 1..Len(c.sortedSet) :
             c.sortedSet[i] < Sum64(c.hasher, PartitionKey(p))
    /\ Cardinality(c.bins) >= 2

(***************************************************************************)
(* C25 (ring invariant): in every state of a constructed structure the     *)
(* sorted position sequence is strictly ascending, so it has no duplicate  *)
(* position, and its elements are exactly the keys of the position-to-bin  *)
(* map.  Stated for a feasible configuration.                              *)
(***************************************************************************)
C25_RingInvariant ==
    (phase = "ready" /\ FeasibleConfig) =>
        /\ \A i \in 1..(Len(c.sortedSet) - 1) : c.sortedSet[i] < c.sortedSet[i + 1]
        /\ {c.sortedSet[i] : i \in 1..Len(c.sortedSet)} = DOMAIN c.ring

(***************************************************************************)
(* C26: in every state, for every tracked bin X and every tracked ball b,  *)
(* b is in the result of GetBalls(X) if and only if the partition table    *)
(* maps the partition b is recorded under to X.  Stated for a feasible     *)
(* configuration and a ring without colliding positions.                   *)
(***************************************************************************)
\* The balls GetBalls returns for a bin; none when it returns an error.
BallsOfBin(s, bin) ==
    LET r == GetBalls(s, bin)
    IN  IF r.err # NoErr THEN {} ELSE {r.out[i] : i \in 1..Len(r.out)}

C26_BallsFollowPartitionTable ==
    (phase = "ready" /\ FeasibleConfig /\ NoCollision(c)) =>
        \A X \in GetBins(c) : \A p \in DOMAIN c.balls :
           (c.balls[p] \in BallsOfBin(c, X)) <=> (GetPartitionOwner(c, p) = X)

(***************************************************************************)
(* C27: Add and Remove, with the relocation pass Add triggers, leave the   *)
(* ball registry unchanged (the tracked balls and the partition each is    *)
(* recorded under), whether they succeed or fail, and relocate alone       *)
(* changes nothing.                                                        *)
(***************************************************************************)
C27_MembershipKeepsBalls ==
    [][(phase = "ready" /\ ret'.op \in {"Add", "Remove"} /\ ~LocateRecorded) =>
          /\ c'.balls = c.balls
          /\ TrackedBalls(c') = TrackedBalls(c)
          /\ relocate(c') = c']_vars

\* An Add gave the partition of a tracked ball to the new bin and the ball
\* is still recorded under that partition.
C27_Witness ==
    /\ phase = "ready" /\ ret.op = "Add" /\ ret.err = NoErr
    /\ calls.l.op = "none"
    /\ \E p \in DOMAIN c.balls :
          /\ p \in DOMAIN c.partitions /\ c.partitions[p] = ret.bin
          /\ FindPartitionID(c, Bytes(c.balls[p])) = p
    /\ relocate(c) = c

(***************************************************************************)
(* C28: New called with no bins, an absent (nil) list or an empty one,     *)
(* returns without error an empty structure, on which no distribution has  *)
(* run and which accepts Add calls.  Stated for a feasible configuration.  *)
(***************************************************************************)
\* The step is what New gives for this list.
NewGave(isNil, list) ==
    LET r == New(cfg, isNil, list)
    IN  /\ phase = "start"
        /\ ret'.op = (IF isNil THEN "NewNil" ELSE "New")
        /\ ret'.err = r.err
        /\ c' = (IF r.err = NoErr THEN r.c ELSE Zero)

C28_NewWithoutBins ==
    [][(FeasibleConfig /\ (NewGave(TRUE, << >>) \/ NewGave(FALSE, << >>))) =>
          /\ ret'.err = NoErr
          /\ phase' = "ready"
          /\ c'.bins = {} /\ c'.sortedSet = << >>
          /\ c'.partitions = EmptyMap /\ c'.loads = EmptyMap
          /\ c'.partition = cfg.Partition]_vars

(***************************************************************************)
(* C29: under fair scheduling every call returns and no caller waits for   *)
(* ever: an Add or a Remove in progress ends, a Locate that has recorded   *)
(* its ball returns, and a lock that is held is released.                  *)
(***************************************************************************)
C29_CallsReturn ==
    /\ (calls.w.op # "none") ~> (calls.w.op = "none")
    /\ (calls.l.op # "none") ~> (calls.l.op = "none")
    /\ (mu = "locked") ~> (mu = "unlocked")

(***************************************************************************)
(* C30: after every distribution that succeeds, the keys of the load       *)
(* table (the bins LoadDistribution reports) are exactly the tracked       *)
(* bins.  Stated for a feasible configuration.                             *)
(***************************************************************************)
C30_LoadKeysAreTrackedBins ==
    [][(DistributionSucceeded /\ FeasibleConfig) =>
          DOMAIN LoadDistribution(c') = GetBins(c')]_vars

(***************************************************************************)
(* C31: Locate called while no bin is tracked records the ball, so that    *)
(* Delete of the ball then succeeds, and returns nil without failing; and  *)
(* a Locate that returns next after a successful Add returns a tracked     *)
(* bin.  Stated for a feasible configuration.                              *)
(***************************************************************************)
C31_LocateWithoutBins ==
    [][(phase = "ready" /\ FeasibleConfig) =>
          /\ (LocateRecorded /\ GetBins(c) = {}) =>
                /\ calls'.l.arg \in TrackedBalls(c')
                /\ Delete(c', calls'.l.arg).err = NoErr
          /\ (Returns("Locate") /\ GetBins(c) = {}) =>
                (ret'.err = NoErr /\ ret'.out = "nil")
          /\ (Returns("Locate") /\ ret.op = "Add" /\ ret.err = NoErr) =>
                ret'.out \in GetBins(c')]_vars

====
